---------------------------- MODULE Spec2Model ----------------------------
(***************************************************************************)
(* Model of protocol/socketio.go: the socket.io text codec (Encode and     *)
(* Decode with their helpers).  A Go string is a sequence of one-character *)
(* strings; all characters of the model are ASCII, so byte offsets and     *)
(* rune offsets coincide.  A Go slice expression s[lo:hi] is Slice, and    *)
(* the run-time check Go performs on it is SliceOK.                        *)
(***************************************************************************)
EXTENDS Integers, Sequences, FiniteSets, TLC

VARIABLES pc, data, msgIn, enc, dec

vars == <<pc, data, msgIn, enc, dec>>

---------------------------------------------------------------------------
(* Bounds of the explored inputs. *)

MaxBody == 4

MaxText == 1

MaxRaw == 3

---------------------------------------------------------------------------
(* Program constants. *)

open == <<"0">>

msg == <<"4">>

emptyMessage == <<"4", "0">>

commonMessage == <<"4", "2">>

ackMessage == <<"4", "3">>

CloseMessage == <<"1">>

PingMessage == <<"2">>

PongMessage == <<"3">>

ErrorWrongMessageType == "Wrong message type"

ErrorWrongPacket == "Wrong packet"

(* The *strconv.NumError that strconv.Atoi returns. *)
ErrorNumSyntax == "strconv.Atoi: invalid syntax"

(* A run-time panic: slice bounds out of range. *)
RuntimePanic == "panic: slice bounds out of range"

nil == "nil"

(* The message kinds.  Their declaration (with the Message struct) is in   *)
(* the package's message file; the codec only compares them, so the model  *)
(* numbers them in the order of the kind table.                            *)
MessageTypeOpen == 0

MessageTypeClose == 1

MessageTypePing == 2

MessageTypePong == 3

MessageTypeEmpty == 4

MessageTypeEmit == 5

MessageTypeAckRequest == 6

MessageTypeAckResponse == 7

(* The Message struct: the fields Encode reads and Decode fills in. *)
Message(type, namespace, ackId, method, args, source) ==
    [Type |-> type, Namespace |-> namespace, AckId |-> ackId,
     Method |-> method, Args |-> args, Source |-> source]

---------------------------------------------------------------------------
(* Go primitives. *)

SliceOK(s, lo, hi) == 0 <= lo /\ lo <= hi /\ hi <= Len(s)

Slice(s, lo, hi) == SubSeq(s, lo + 1, hi)

IndexByte(s, c) ==
    IF \E i \in 1..Len(s) : s[i] = c
    THEN (CHOOSE i \in 1..Len(s) : s[i] = c /\ \A j \in 1..(i - 1) : s[j] # c) - 1
    ELSE -1

DigitChars == <<"0", "1", "2", "3", "4", "5", "6", "7", "8", "9">>

IsDigit(c) == \E d \in 1..10 : DigitChars[d] = c

DigitVal(c) == (CHOOSE d \in 1..10 : DigitChars[d] = c) - 1

RECURSIVE DecVal(_)
DecVal(ds) ==
    IF Len(ds) = 0 THEN 0
    ELSE 10 * DecVal(SubSeq(ds, 1, Len(ds) - 1)) + DigitVal(ds[Len(ds)])

(* strconv.Atoi on strings shorter than 19 bytes: an optional sign, then   *)
(* one or more decimal digits.                                             *)
Atoi(s) ==
    LET signed == Len(s) > 0 /\ s[1] \in {"+", "-"}
        ds == IF signed THEN Tail(s) ELSE s
    IN  IF Len(ds) = 0 \/ \E i \in 1..Len(ds) : ~IsDigit(ds[i])
        THEN [val |-> 0, err |-> ErrorNumSyntax]
        ELSE [val |-> IF signed /\ s[1] = "-" THEN 0 - DecVal(ds) ELSE DecVal(ds),
              err |-> nil]

RECURSIVE UDec(_)
UDec(n) ==
    IF n < 10 THEN <<DigitChars[n + 1]>>
    ELSE UDec(n \div 10) \o <<DigitChars[(n % 10) + 1]>>

Itoa(n) == IF n < 0 THEN <<"-">> \o UDec(0 - n) ELSE UDec(n)

(* json.Marshal of a string: quoted, with '"' and '\' escaped. *)
RECURSIVE jsonEscape(_)
jsonEscape(s) ==
    IF Len(s) = 0 THEN <<>>
    ELSE (IF Head(s) \in {"\"", "\\"} THEN <<"\\", Head(s)>> ELSE <<Head(s)>>)
         \o jsonEscape(Tail(s))

jsonMarshal(s) == <<"\"">> \o jsonEscape(s) \o <<"\"">>

---------------------------------------------------------------------------
(* Decoder helpers. *)

(* getMessageType4 with a faulty inner switch: "40" is its default arm, so *)
(* every two-character prefix that is neither "42" nor "43" is Empty.      *)
getMessageType4DefaultEmpty(d) ==
    IF Len(d) = 1
    THEN [t |-> 0, restText |-> <<>>, err |-> ErrorWrongMessageType]
    ELSE LET two == Slice(d, 0, 2)
             r2 == Slice(d, 2, Len(d))
         IN  CASE two = commonMessage ->
                    [t |-> MessageTypeAckRequest, restText |-> r2, err |-> nil]
               [] two = ackMessage ->
                    [t |-> MessageTypeAckResponse, restText |-> r2, err |-> nil]
               [] OTHER ->
                    [t |-> MessageTypeEmpty, restText |-> r2, err |-> nil]

(* The "case msg:" arm of getMessageType: d starts with "4". *)
getMessageType4(d) ==
    IF Len(d) = 1
    THEN [t |-> 0, restText |-> <<>>, err |-> ErrorWrongMessageType]
    ELSE LET two == Slice(d, 0, 2)
             r2 == Slice(d, 2, Len(d))
         IN  CASE two = emptyMessage ->
                    [t |-> MessageTypeEmpty, restText |-> r2, err |-> nil]
               [] two = commonMessage ->
                    [t |-> MessageTypeAckRequest, restText |-> r2, err |-> nil]
               [] two = ackMessage ->
                    [t |-> MessageTypeAckResponse, restText |-> r2, err |-> nil]
               [] OTHER ->
                    [t |-> 0, restText |-> r2, err |-> ErrorWrongMessageType]

getMessageType(d) ==
    IF Len(d) = 0 THEN [t |-> 0, restText |-> d, err |-> ErrorWrongMessageType]
    ELSE LET one == Slice(d, 0, 1)
             r1 == Slice(d, 1, Len(d))
         IN  CASE one = open -> [t |-> MessageTypeOpen, restText |-> r1, err |-> nil]
               [] one = CloseMessage -> [t |-> MessageTypeClose, restText |-> r1, err |-> nil]
               [] one = PingMessage -> [t |-> MessageTypePing, restText |-> r1, err |-> nil]
               [] one = PongMessage -> [t |-> MessageTypePong, restText |-> r1, err |-> nil]
               [] one = msg -> getMessageType4(d)
               [] OTHER -> [t |-> 0, restText |-> r1, err |-> ErrorWrongMessageType]

getNamespace(text) ==
    IF Len(text) = 0 THEN [namespace |-> <<>>, restText |-> <<>>]
    ELSE IF Slice(text, 0, 1) = <<"/">>
         THEN LET pos == IndexByte(text, ",")
              IN  IF pos = -1
                  THEN [namespace |-> text, restText |-> <<>>]
                  ELSE [namespace |-> Slice(text, 0, pos),
                        restText |-> IF Len(text) > pos + 1
                                     THEN Slice(text, pos + 1, Len(text))
                                     ELSE <<>>]
         ELSE [namespace |-> <<>>, restText |-> text]

(* getAck with a faulty parse: an empty ack-id text counts as ack id 0. *)
getAckEmptyIsZero(text) ==
    IF Len(text) = 0 THEN [ackId |-> 0, restText |-> <<>>, err |-> ErrorWrongPacket]
    ELSE LET pos == IndexByte(text, "[")
         IN  IF pos = -1
             THEN [ackId |-> 0, restText |-> <<>>, err |-> ErrorWrongPacket]
             ELSE LET ack == Atoi(Slice(text, 0, pos))
                  IN  IF ack.err # nil /\ pos > 0
                      THEN [ackId |-> 0, restText |-> <<>>, err |-> ack.err]
                      ELSE [ackId |-> ack.val, restText |-> Slice(text, pos, Len(text)),
                            err |-> nil]

getAck(text) ==
    IF Len(text) = 0 THEN [ackId |-> 0, restText |-> <<>>, err |-> ErrorWrongPacket]
    ELSE LET pos == IndexByte(text, "[")
         IN  IF pos = -1
             THEN [ackId |-> 0, restText |-> <<>>, err |-> ErrorWrongPacket]
             ELSE LET ack == Atoi(Slice(text, 0, pos))
                  IN  IF ack.err # nil
                      THEN [ackId |-> 0, restText |-> <<>>, err |-> ack.err]
                      ELSE [ackId |-> ack.val, restText |-> Slice(text, pos, Len(text)),
                            err |-> nil]

(* The for-range loop of getMethod from byte offset i on, with the loop's  *)
(* locals in st; st.err is set when the loop returns ErrorWrongPacket.     *)
RECURSIVE scanMethod(_, _, _)
scanMethod(text, i, st) ==
    IF i >= Len(text) THEN st
    ELSE LET c == text[i + 1]
         IN  IF c = "\""
             THEN IF st.countQuote = 0
                  THEN scanMethod(text, i + 1,
                           [st EXCEPT !.start = i + 1, !.countQuote = 1])
                  ELSE IF st.countQuote = 1
                  THEN scanMethod(text, i + 1,
                           [st EXCEPT !.end = i, !.rest = i + 1, !.countQuote = 2])
                  ELSE [st EXCEPT !.err = ErrorWrongPacket]
             ELSE IF c = ","
             THEN IF st.countQuote < 2
                  THEN scanMethod(text, i + 1, st)
                  ELSE [st EXCEPT !.rest = i + 1]
             ELSE scanMethod(text, i + 1, st)

getMethod(text) ==
    LET st == scanMethod(text, 0,
                  [start |-> 0, end |-> 0, rest |-> 0, countQuote |-> 0, err |-> nil])
    IN  IF st.err # nil
        THEN [method |-> <<>>, restText |-> <<>>, err |-> st.err]
        ELSE IF st.end < st.start \/ st.rest >= Len(text)
        THEN [method |-> <<>>, restText |-> <<>>, err |-> ErrorWrongPacket]
        ELSE IF ~SliceOK(text, st.start, st.end) \/ ~SliceOK(text, st.rest, Len(text) - 1)
        THEN [method |-> <<>>, restText |-> <<>>, err |-> RuntimePanic]
        ELSE [method |-> Slice(text, st.start, st.end),
              restText |-> Slice(text, st.rest, Len(text) - 1),
              err |-> nil]

(* Decode's two results: msg holds the returned *Message (empty for nil),  *)
(* err the returned error; a panic returns neither.                        *)
Decode(d) ==
    LET mt == getMessageType(d)
    IN  IF mt.err # nil THEN [msg |-> <<>>, err |-> mt.err]
        ELSE
        LET ns == getNamespace(mt.restText)
        IN  IF mt.t = MessageTypeOpen
            THEN [msg |-> <<Message(mt.t, ns.namespace, 0, <<>>, ns.restText, d)>>,
                  err |-> nil]
            ELSE IF mt.t \in {MessageTypeClose, MessageTypePing,
                              MessageTypePong, MessageTypeEmpty}
            THEN [msg |-> <<Message(mt.t, ns.namespace, 0, <<>>, <<>>, d)>>, err |-> nil]
            ELSE
            LET ack == getAck(ns.restText)
            IN  IF mt.t = MessageTypeAckResponse
                THEN IF ack.err # nil THEN [msg |-> <<>>, err |-> ack.err]
                     ELSE IF ~SliceOK(ack.restText, 1, Len(ack.restText) - 1)
                     THEN [msg |-> <<>>, err |-> RuntimePanic]
                     ELSE [msg |-> <<Message(mt.t, ns.namespace, ack.ackId, <<>>,
                                       Slice(ack.restText, 1, Len(ack.restText) - 1), d)>>,
                           err |-> nil]
                ELSE
                LET type == IF ack.err # nil THEN MessageTypeEmit ELSE mt.t
                    rest == IF ack.err # nil THEN Slice(d, 2, Len(d)) ELSE ack.restText
                    m == getMethod(rest)
                IN  IF m.err # nil THEN [msg |-> <<>>, err |-> m.err]
                    ELSE [msg |-> <<Message(type, ns.namespace, ack.ackId,
                                            m.method, m.restText, d)>>,
                          err |-> nil]

---------------------------------------------------------------------------
(* Encoder. *)

(* typeToText with a faulty switch: its last arm is the default, so no     *)
(* kind is rejected.                                                       *)
typeToTextNoDefault(msgType) ==
    CASE msgType = MessageTypeOpen -> [text |-> open, err |-> nil]
      [] msgType = MessageTypeClose -> [text |-> CloseMessage, err |-> nil]
      [] msgType = MessageTypePing -> [text |-> PingMessage, err |-> nil]
      [] msgType = MessageTypePong -> [text |-> PongMessage, err |-> nil]
      [] msgType = MessageTypeEmpty -> [text |-> emptyMessage, err |-> nil]
      [] msgType \in {MessageTypeEmit, MessageTypeAckRequest} ->
            [text |-> commonMessage, err |-> nil]
      [] OTHER -> [text |-> ackMessage, err |-> nil]

typeToText(msgType) ==
    CASE msgType = MessageTypeOpen -> [text |-> open, err |-> nil]
      [] msgType = MessageTypeClose -> [text |-> CloseMessage, err |-> nil]
      [] msgType = MessageTypePing -> [text |-> PingMessage, err |-> nil]
      [] msgType = MessageTypePong -> [text |-> PongMessage, err |-> nil]
      [] msgType = MessageTypeEmpty -> [text |-> emptyMessage, err |-> nil]
      [] msgType \in {MessageTypeEmit, MessageTypeAckRequest} ->
            [text |-> commonMessage, err |-> nil]
      [] msgType = MessageTypeAckResponse -> [text |-> ackMessage, err |-> nil]
      [] OTHER -> [text |-> <<>>, err |-> ErrorWrongMessageType]

Encode(m) ==
    LET tt == typeToText(m.Type)
    IN  IF tt.err # nil THEN [result |-> <<>>, err |-> tt.err]
        ELSE
        LET r1 == tt.text \o m.Namespace
            comma1 == m.Namespace # <<>>
        IN  IF m.Type \in {MessageTypeEmpty, MessageTypePing, MessageTypePong}
            THEN [result |-> r1, err |-> nil]
            ELSE
            LET isAck == m.Type \in {MessageTypeAckRequest, MessageTypeAckResponse}
                r2 == IF isAck
                      THEN r1 \o (IF comma1 THEN <<",">> ELSE <<>>) \o Itoa(m.AckId)
                      ELSE r1
                comma2 == comma1 /\ ~isAck
                r3 == r2 \o (IF comma2 THEN <<",">> ELSE <<>>)
            IN  IF m.Type \in {MessageTypeOpen, MessageTypeClose}
                THEN [result |-> r3 \o m.Args, err |-> nil]
                ELSE IF m.Type = MessageTypeAckResponse
                THEN [result |-> r3 \o <<"[">> \o m.Args \o <<"]">>, err |-> nil]
                ELSE [result |-> r3 \o <<"[">> \o jsonMarshal(m.Method) \o <<",">>
                                    \o m.Args \o <<"]">>,
                      err |-> nil]

---------------------------------------------------------------------------
(* Inputs.  Strs(A, n) is every string over A of at most n characters.     *)

RECURSIVE Strs(_, _)
Strs(A, n) ==
    IF n = 0 THEN {<<>>}
    ELSE LET S == Strs(A, n - 1)
         IN  S \cup {<<c>> \o s : c \in A, s \in {t \in S : Len(t) = n - 1}}

RawAlphabet == {"0", "1", "2", "3", "4", "/", ",", "[", "]", "\"", "-", "a"}

BodyAlphabet == {"[", "]", "\"", ",", "a"}

TextAlphabet == {"\"", ",", "[", "]", "/", "\\", "a"}

FrameHeads == {commonMessage, ackMessage}

NamespaceHeads == {<<>>, <<"/", "a">>, <<"/", "a", ",">>, <<"/", "\"", ",">>}

AckHeads == {<<>>, <<"1">>, <<"1", "2">>, <<"-", "1">>, <<"+", "1">>}

(* Well-formed and nearly well-formed bodies longer than MaxBody. *)
SampleBodies ==
    {<<"[", "\"", "a", "\"", ",", "a", "]">>,
     <<"[", "\"", "a", "\"", ",", "[", "a", "]", "]">>,
     <<"[", "\"", "a", "\"", ",", "\"", "a", "\"", "]">>,
     <<"[", "\"", "a", "\"", "a", ",", "a", "]">>,
     <<"[", "\"", "a", ",", "a", "\"", ",", "a", "]">>,
     <<"[", "\"", "a", "\"", ",", "a">>,
     <<"[", "a", ",", "a", "]">>,
     <<"[", "[", "a", "]", ",", "a", "]">>}

(* Wire strings handed to Decode: every short string over RawAlphabet, and *)
(* 42/43 frames with an optional namespace, an optional ack id and a body. *)
Frames ==
    Strs(RawAlphabet, MaxRaw)
    \cup {h \o n \o a \o b : h \in FrameHeads, n \in NamespaceHeads, a \in AckHeads,
                             b \in Strs(BodyAlphabet, MaxBody) \cup SampleBodies}

Types == (MessageTypeOpen - 1)..(MessageTypeAckResponse + 1)

Namespaces == {<<>>, <<"/", "a">>, <<"/", "\"">>}

AckIds == {0, 12}

(* Pre-serialized payloads: empty, each character of TextAlphabet alone,   *)
(* and two JSON values.                                                    *)
ArgTexts ==
    {<<>>} \cup {<<c>> : c \in TextAlphabet}
    \cup {<<"[", "a", "]">>, <<"\"", "a", "\"">>}

(* Messages handed to Encode. *)
Messages ==
    {Message(t, n, a, me, ar, <<>>) :
        t \in Types, n \in Namespaces, a \in AckIds,
        me \in Strs(TextAlphabet, MaxText), ar \in ArgTexts}

NoMessage == Message(0, <<>>, 0, <<>>, <<>>, <<>>)

NoEncode == [result |-> <<>>, err |-> nil]

NoDecode == [msg |-> <<>>, err |-> nil]

---------------------------------------------------------------------------
(* The state machine: a caller holds a wire string or a Message and calls  *)
(* Decode or Encode on it; an encoded frame is then decoded by the peer.   *)

InitDecode ==
    /\ pc = "decode"
    /\ data \in Frames
    /\ msgIn = NoMessage
    /\ enc = NoEncode
    /\ dec = NoDecode

InitEncode ==
    /\ pc = "encode"
    /\ msgIn \in Messages
    /\ data = <<>>
    /\ enc = NoEncode
    /\ dec = NoDecode

Init == InitDecode \/ InitEncode

DoDecode ==
    /\ pc = "decode"
    /\ dec' = Decode(data)
    /\ pc' = "decoded"
    /\ UNCHANGED <<data, msgIn, enc>>

DoEncode ==
    /\ pc = "encode"
    /\ enc' = Encode(msgIn)
    /\ data' = enc'.result
    /\ pc' = "encoded"
    /\ UNCHANGED <<msgIn, dec>>

DoDecodeEncoded ==
    /\ pc = "encoded"
    /\ enc.err = nil
    /\ dec' = Decode(data)
    /\ pc' = "roundtrip"
    /\ UNCHANGED <<data, msgIn, enc>>

NextDecode == DoDecode

NextEncode == DoEncode \/ DoDecodeEncoded

Next == DoDecode \/ DoEncode \/ DoDecodeEncoded

SpecDecode == InitDecode /\ [][NextDecode]_vars

SpecEncode == InitEncode /\ [][NextEncode]_vars

Spec == Init /\ [][Next]_vars

TypeOK ==
    /\ pc \in {"decode", "decoded", "encode", "encoded", "roundtrip"}
    /\ Len(dec.msg) <= 1

---------------------------------------------------------------------------
(* Vocabulary of the properties, taken from the wire grammar.              *)

StartsWith(s, p) == Len(s) >= Len(p) /\ SubSeq(s, 1, Len(p)) = p

EndsWith(s, p) == Len(s) >= Len(p) /\ SubSeq(s, Len(s) - Len(p) + 1, Len(s)) = p

Has(s, c) == \E i \in 1..Len(s) : s[i] = c

AllDigits(s) == \A i \in 1..Len(s) : IsDigit(s[i])

RecognizedKinds == {MessageTypeOpen, MessageTypeClose, MessageTypePing, MessageTypePong,
                    MessageTypeEmpty, MessageTypeEmit, MessageTypeAckRequest,
                    MessageTypeAckResponse}

(* The prefix column of the kind table. *)
WirePrefix(kind) ==
    CASE kind = MessageTypeOpen -> <<"0">>
      [] kind = MessageTypeClose -> <<"1">>
      [] kind = MessageTypePing -> <<"2">>
      [] kind = MessageTypePong -> <<"3">>
      [] kind = MessageTypeEmpty -> <<"4", "0">>
      [] kind = MessageTypeEmit -> <<"4", "2">>
      [] kind = MessageTypeAckRequest -> <<"4", "2">>
      [] kind = MessageTypeAckResponse -> <<"4", "3">>

WirePrefixes == {WirePrefix(k) : k \in RecognizedKinds}

(* The namespace as written on the wire before further fields. *)
NamespaceWire(ns) == IF ns = <<>> THEN <<>> ELSE ns \o <<",">>

(* The text of a 42/43 frame after its two-character prefix and its        *)
(* optional namespace.                                                     *)
AfterNamespace(frame) ==
    LET r == SubSeq(frame, 3, Len(frame))
    IN  IF Len(r) > 0 /\ r[1] = "/"
        THEN IF Has(r, ",")
             THEN SubSeq(r, IndexByte(r, ",") + 2, Len(r))
             ELSE <<>>
        ELSE r

(* The ack-id position of a text: what precedes its first '['. *)
HasAckText(text) == Has(text, "[")

AckText(text) == SubSeq(text, 1, IndexByte(text, "["))

AckParses(text) == HasAckText(text) /\ Atoi(AckText(text)).err = nil

DecodeOK == dec.err = nil /\ Len(dec.msg) = 1

Out == dec.msg[1]

WellFormed(m) ==
    /\ m.Type \in RecognizedKinds
    /\ m.Namespace = <<>> \/ (m.Namespace[1] = "/" /\ ~Has(m.Namespace, ","))
    /\ m.AckId >= 0
    /\ m.AckId # 0 => m.Type \in {MessageTypeAckRequest, MessageTypeAckResponse}
    /\ m.Method # <<>> => m.Type \in {MessageTypeEmit, MessageTypeAckRequest}
    /\ m.Args # <<>> => m.Type \in {MessageTypeOpen, MessageTypeClose, MessageTypeEmit,
                                    MessageTypeAckRequest, MessageTypeAckResponse}

---------------------------------------------------------------------------
(* C1: round trip.  For every well-formed Message, Encode succeeds, Decode *)
(* of the encoded frame succeeds, and the decoded message has the same     *)
(* Kind, Namespace, AckId, Method and Args.                                *)
C1_RoundTrip ==
    (pc \in {"encoded", "roundtrip"} /\ WellFormed(msgIn)) =>
        /\ enc.err = nil
        /\ pc = "roundtrip" =>
              /\ DecodeOK
              /\ Out.Type = msgIn.Type
              /\ Out.Namespace = msgIn.Namespace
              /\ Out.AckId = msgIn.AckId
              /\ Out.Method = msgIn.Method
              /\ Out.Args = msgIn.Args

(* C2: Decode is total with no partial result: it returns a Message and no *)
(* error, or one of its errors and no Message; it never panics.            *)
C2_DecodeTotal ==
    pc = "decoded" =>
        \/ dec.err = nil /\ Len(dec.msg) = 1
        \/ /\ dec.err \in {ErrorWrongMessageType, ErrorWrongPacket, ErrorNumSyntax}
           /\ dec.msg = <<>>

(* C3: a 42-class frame decodes only if what follows the optional          *)
(* namespace and optional ack id is [ " method " , args ] ; every other    *)
(* 42-class frame fails with WrongPacket.                                  *)
C3_EmitBodyForm ==
    (pc = "decoded" /\ StartsWith(data, commonMessage)) =>
        IF dec.err = nil
        THEN LET body == <<"[", "\"">> \o Out.Method \o <<"\"", ",">>
                         \o Out.Args \o <<"]">>
                 head == SubSeq(data, 3, Len(data) - Len(body))
                 nsw == NamespaceWire(Out.Namespace)
             IN  /\ Len(dec.msg) = 1
                 /\ ~Has(Out.Method, "\"")
                 /\ Len(data) >= 2 + Len(body)
                 /\ EndsWith(data, body)
                 /\ StartsWith(head, nsw)
                 /\ AllDigits(SubSeq(head, Len(nsw) + 1, Len(head)))
        ELSE dec.err = ErrorWrongPacket

(* C4: Decode returns an AckResponse only for a frame                      *)
(* 43 [namespace ,] ackId [ args ] : the ack id is present, the wrapper is *)
(* '[' ... ']', Args is the text inside it and AckId the parsed integer.   *)
C4_AckResponseForm ==
    (pc = "decoded" /\ DecodeOK /\ Out.Type = MessageTypeAckResponse) =>
        LET body == <<"[">> \o Out.Args \o <<"]">>
            head == SubSeq(data, 3, Len(data) - Len(body))
            nsw == NamespaceWire(Out.Namespace)
            ackw == SubSeq(head, Len(nsw) + 1, Len(head))
        IN  /\ StartsWith(data, ackMessage)
            /\ Len(data) >= 2 + Len(body)
            /\ EndsWith(data, body)
            /\ StartsWith(head, nsw)
            /\ Atoi(ackw).err = nil
            /\ Atoi(ackw).val = Out.AckId

(* C5: Decode fails with WrongMessageType exactly when the input does not  *)
(* begin with one of the wire prefixes 0, 1, 2, 3, 40, 42, 43.             *)
C5_WrongMessageType ==
    pc = "decoded" =>
        (dec.err = ErrorWrongMessageType
            <=> ~(\E p \in WirePrefixes : StartsWith(data, p)))

C5_Witness ==
    /\ pc = "decoded"
    /\ data = <<"4">>
    /\ dec.err = ErrorWrongMessageType
    /\ dec.msg = <<>>

(* C6: a successfully decoded 42-class frame is an AckRequest exactly when *)
(* the text between the optional namespace and the first '[' parses as an  *)
(* integer, which is then its AckId; otherwise it is an Emit with AckId 0. *)
C6_EmitOrAckRequest ==
    (pc = "decoded" /\ StartsWith(data, commonMessage) /\ DecodeOK) =>
        LET text == AfterNamespace(data)
        IN  IF AckParses(text)
            THEN /\ Out.Type = MessageTypeAckRequest
                 /\ Out.AckId = Atoi(AckText(text)).val
            ELSE /\ Out.Type = MessageTypeEmit
                 /\ Out.AckId = 0

C6_Witness ==
    /\ pc = "decoded"
    /\ DecodeOK
    /\ Out.Type = MessageTypeAckRequest
    /\ Out.Namespace = <<"/", "a">>
    /\ Out.AckId = 12
    /\ Out.Method = <<"a">>
    /\ Out.Args = <<"[", "a", "]">>

(* C7: every message Decode returns has AckId >= 0, and a signed number in *)
(* the ack-id position is not accepted as an ack id.                       *)
C7_AckIdNonNegative ==
    (pc = "decoded" /\ DecodeOK) =>
        /\ Out.AckId >= 0
        /\ Out.Type \in {MessageTypeAckRequest, MessageTypeAckResponse} =>
              AllDigits(AckText(AfterNamespace(data)))

(* C8: Encode writes a non-empty Namespace right after the prefix and a    *)
(* comma after it only if further fields follow: Close, Ping, Pong and     *)
(* Empty encode to prefix + Namespace, and no output ends with the         *)
(* namespace's separator comma.                                            *)
C8_NamespaceComma ==
    (pc = "encoded" /\ enc.err = nil) =>
        LET p == WirePrefix(msgIn.Type) \o msgIn.Namespace
        IN  /\ StartsWith(enc.result, p)
            /\ msgIn.Type \in {MessageTypeClose, MessageTypePing, MessageTypePong,
                               MessageTypeEmpty} => enc.result = p
            /\ msgIn.Namespace # <<>> => enc.result # p \o <<",">>

(* C9: Encode fails with WrongMessageType and an empty result for every    *)
(* unrecognized Kind, and for every recognized Kind succeeds with an       *)
(* output that starts with that Kind's wire prefix.                        *)
C9_EncodeKind ==
    pc = "encoded" =>
        IF msgIn.Type \in RecognizedKinds
        THEN enc.err = nil /\ StartsWith(enc.result, WirePrefix(msgIn.Type))
        ELSE enc.err = ErrorWrongMessageType /\ enc.result = <<>>

C9_Witness ==
    /\ pc = "encoded"
    /\ msgIn.Type = MessageTypeAckResponse + 1
    /\ msgIn.Namespace # <<>>
    /\ msgIn.Method # <<>>
    /\ enc.err = ErrorWrongMessageType
    /\ enc.result = <<>>

(* C10: on the Emit fallback path the namespace does not reach the body:   *)
(* Decode("42" + ns + "," + b) has the outcome of Decode("42" + b), the    *)
(* same error or an Emit with the same Method and Args, with Namespace ns. *)
C10_NamespaceNoLeak ==
    LET r == SubSeq(data, 3, Len(data))
        ns == SubSeq(r, 1, IndexByte(r, ","))
        b == SubSeq(r, IndexByte(r, ",") + 2, Len(r))
        bare == Decode(commonMessage \o b)
    IN  (/\ pc = "decoded"
         /\ StartsWith(data, commonMessage \o <<"/">>)
         /\ Has(r, ",")
         /\ ~AckParses(b)) =>
            /\ dec.err = bare.err
            /\ dec.err = nil =>
                  /\ Len(dec.msg) = 1
                  /\ Out.Type = MessageTypeEmit
                  /\ Out.Namespace = ns
                  /\ bare.msg[1].Type = MessageTypeEmit
                  /\ Out.Method = bare.msg[1].Method
                  /\ Out.Args = bare.msg[1].Args

=============================================================================
